---- MODULE Spec2Model ----
(***************************************************************************)
(* A model of jetblack_datemath: the calendar classes of calendars.py and  *)
(* the date arithmetic of arithmetic.py.                                    *)
(*                                                                          *)
(* A datetime.date is modelled by its proleptic Gregorian ordinal (the      *)
(* value of date.toordinal()), so that date + timedelta(n) is integer       *)
(* addition; year, month and day are recovered with the standard library's  *)
(* ordinal-to-date conversion and datetime.date(y, m, d) is the             *)
(* date-to-ordinal conversion.                                              *)
(***************************************************************************)
EXTENDS Integers, Sequences, FiniteSets, TLC

VARIABLES
    kind,       \* the class of the calendar object
    weekends,   \* AbstractWeekendCalendar.weekends
    holidays,   \* SimpleCalendar.holidays
    cache,      \* YearlyCalendar._holidays: year -> set of holiday dates
    fetchLog,   \* for each year, what each call of fetch_holidays returned
    asked,      \* the years is_holiday has been asked about
    call,       \* the last call made: its function and its arguments
    frame,      \* the locals and position of a call run statement by statement
    ret,        \* <<>> before any call, <<value>> once it has returned
    exc         \* the exception the last call raised, "" if none

vars == <<kind, weekends, holidays, cache, fetchLog, asked, call, frame,
          ret, exc>>

----------------------------------------------------------------------------
(* weekdays.py, daterules.py *)

MONDAY == 0
TUESDAY == 1
WEDNESDAY == 2
THURSDAY == 3
FRIDAY == 4
SATURDAY == 5
SUNDAY == 6

DayOfWeek == MONDAY..SUNDAY

NONE == 0
NEAREST == 1
PRECEDING == 2
FOLLOWING == 3
MODIFIED_PRECEDING == 4
MODIFIED_FOLLOWING == 5

BusinessDayConvention == NONE..MODIFIED_FOLLOWING

----------------------------------------------------------------------------
(* The standard library's date: calendar.isleap, date(y, m, d),            *)
(* date.year/.month/.day, date.weekday().                                   *)

isleap(year) == year % 4 = 0 /\ (year % 100 # 0 \/ year % 400 = 0)

_MONTH_DAYS == <<31, 28, 31, 30, 31, 30, 31, 31, 30, 31, 30, 31>>

\* days_in_month without the test for February of a leap year.
days_in_month_table(year, month) == _MONTH_DAYS[month]

days_in_month(year, month) ==
    IF isleap(year) /\ month = 2 THEN 29 ELSE _MONTH_DAYS[month]

days_in_year(year) == IF isleap(year) THEN 366 ELSE 365

DaysBeforeMonth == <<0, 31, 59, 90, 120, 151, 181, 212, 243, 273, 304, 334>>

\* datetime.date(year, month, day), as its ordinal (0001-01-01 is 1).
Date(year, month, day) ==
    LET y == year - 1
    IN  y * 365 + (y \div 4) - (y \div 100) + (y \div 400)
        + DaysBeforeMonth[month]
        + (IF month > 2 /\ isleap(year) THEN 1 ELSE 0)
        + day

\* The (year, month, day) of an ordinal, as date.fromordinal computes it.
YMD(ordinal) ==
    LET n0   == ordinal - 1
        n400 == n0 \div 146097
        r400 == n0 % 146097
        n100 == r400 \div 36524
        r100 == r400 % 36524
        n4   == r100 \div 1461
        r4   == r100 % 1461
        n1   == r4 \div 365
        n    == r4 % 365
        year == n400 * 400 + 1 + n100 * 100 + n4 * 4 + n1
        leap == n1 = 3 /\ (n4 # 24 \/ n100 = 3)
        m0   == (n + 50) \div 32
        p0   == DaysBeforeMonth[m0] + (IF m0 > 2 /\ leap THEN 1 ELSE 0)
        month == IF p0 > n THEN m0 - 1 ELSE m0
        prec == DaysBeforeMonth[month] + (IF month > 2 /\ leap THEN 1 ELSE 0)
    IN  IF n1 = 4 \/ n100 = 4
        THEN [year |-> year - 1, month |-> 12, day |-> 31]
        ELSE [year |-> year, month |-> month, day |-> n - prec + 1]

Year(date) == YMD(date).year
Month(date) == YMD(date).month
Day(date) == YMD(date).day

\* date.weekday(): Monday is 0, Sunday is 6.
weekday(date) == (date + 6) % 7

----------------------------------------------------------------------------
(* calendars.py: AbstractWeekendCalendar and SimpleCalendar.  A calendar   *)
(* is the record of its fields, [weekends, holidays].                       *)

is_weekend(cal, target_date) == weekday(target_date) \in cal.weekends

is_holiday(cal, target_date) == target_date \in cal.holidays

\* is_business_day with "and" for "or": only a holiday that falls on a
\* weekend day is refused.
is_business_day_and(cal, target_date) ==
    ~(is_weekend(cal, target_date) /\ is_holiday(cal, target_date))

is_business_day(cal, target_date) ==
    ~(is_weekend(cal, target_date) \/ is_holiday(cal, target_date))

SimpleCalendar(w, h) == [weekends |-> w, holidays |-> h]

WEEKEND_CALENDAR == SimpleCalendar({SATURDAY, SUNDAY}, {})

----------------------------------------------------------------------------
(* arithmetic.py *)

is_end_of_month(date) == Day(date) = days_in_month(Year(date), Month(date))

end_of_month(year, month) == Date(year, month, days_in_month(year, month))

Min(a, b) == IF a < b THEN a ELSE b

\* add_months without the clamp to the length of the target month.
add_months_ymd_unclamped(date, months, eom) ==
    LET month0 == Month(date) - 1 + months
        year   == Year(date) + (month0 \div 12)
        month  == (month0 % 12) + 1
        day    == IF eom /\ date = end_of_month(Year(date), Month(date))
                  THEN days_in_month(year, month)
                  ELSE Day(date)
    IN  [year |-> year, month |-> month, day |-> day]

\* The (year, month, day) add_months hands to datetime.date.
add_months_ymd(date, months, eom) ==
    LET month0 == Month(date) - 1 + months
        year   == Year(date) + (month0 \div 12)
        month  == (month0 % 12) + 1
        day    == IF eom /\ date = end_of_month(Year(date), Month(date))
                  THEN days_in_month(year, month)
                  ELSE Min(Day(date), days_in_month(year, month))
    IN  [year |-> year, month |-> month, day |-> day]

add_months(date, months, eom) ==
    LET t == add_months_ymd(date, months, eom)
    IN  Date(t.year, t.month, t.day)

\* The loop of nearest_business_day, forward_date and backward_date being
\* date + k and date - k.
RECURSIVE nearest_loop(_, _, _, _)
nearest_loop(date, k, prefer_forward, cal) ==
    LET forward_date   == date + k
        backward_date  == date - k
        is_forward_ok  == is_business_day(cal, forward_date)
        is_backward_ok == is_business_day(cal, backward_date)
    IN  IF is_forward_ok /\ (prefer_forward \/ ~is_backward_ok)
        THEN forward_date
        ELSE IF is_backward_ok
             THEN backward_date
             ELSE nearest_loop(date, k + 1, prefer_forward, cal)

\* nearest_business_day that always prefers the later date.
nearest_business_day_forward(date, prefer_forward, cal) ==
    IF is_business_day(cal, date)
    THEN date
    ELSE nearest_loop(date, 1, TRUE, cal)

nearest_business_day(date, prefer_forward, cal) ==
    IF is_business_day(cal, date)
    THEN date
    ELSE nearest_loop(date, 1, prefer_forward, cal)

\* The longest run of non-business days a calendar of the model has.
MaxSkip == 400

\* The inner loop of add_business_days, while not is_business_day(date):
\* date += signed_day.  It ends on date + k * sign for the least k >= 0 that
\* makes it a business day, after k iterations.
skip_loop(date, sign, cal) ==
    LET k == CHOOSE i \in 0..MaxSkip :
                 /\ is_business_day(cal, date + i * sign)
                 /\ \A j \in 0..(i - 1) : ~is_business_day(cal, date + j * sign)
    IN  date + k * sign

\* add_business_days as "add count days, then move on to a business day".
count_loop_snap(date, count, sign, cal) ==
    IF count # 0
    THEN skip_loop(date + count, sign, cal)
    ELSE date

\* The outer loop of add_business_days.
RECURSIVE count_loop(_, _, _, _)
count_loop(date, count, sign, cal) ==
    IF count # 0
    THEN count_loop(skip_loop(date + sign, sign, cal), count - sign, sign, cal)
    ELSE date

add_business_days(date, count, cal) ==
    LET sign == IF count > 0 THEN 1 ELSE -1
    IN  count_loop(date, count, sign, cal)

\* What adjust yields when it raises ValueError instead of returning a date
\* (no date has ordinal 0).
Raised == 0

\* adjust without the test for a date that is a business day already.
adjust_unchecked(date, convention, prefer_forward, cal) ==
    IF convention = NONE
    THEN date
    ELSE IF convention = NEAREST
    THEN nearest_business_day(date, prefer_forward, cal)
    ELSE IF convention = FOLLOWING
    THEN add_business_days(date, 1, cal)
    ELSE IF convention = PRECEDING
    THEN add_business_days(date, -1, cal)
    ELSE IF convention = MODIFIED_FOLLOWING
    THEN LET adjusted_date == add_business_days(date, 1, cal)
         IN  IF Month(adjusted_date) = Month(date)
             THEN adjusted_date
             ELSE add_business_days(date, -1, cal)
    ELSE IF convention = MODIFIED_PRECEDING
    THEN LET adjusted_date == add_business_days(date, -1, cal)
         IN  IF Month(adjusted_date) = Month(date)
             THEN adjusted_date
             ELSE add_business_days(date, 1, cal)
    ELSE Raised

adjust(date, convention, prefer_forward, cal) ==
    IF convention = NONE \/ is_business_day(cal, date)
    THEN date
    ELSE IF convention = NEAREST
    THEN nearest_business_day(date, prefer_forward, cal)
    ELSE IF convention = FOLLOWING
    THEN add_business_days(date, 1, cal)
    ELSE IF convention = PRECEDING
    THEN add_business_days(date, -1, cal)
    ELSE IF convention = MODIFIED_FOLLOWING
    THEN LET adjusted_date == add_business_days(date, 1, cal)
         IN  IF Month(adjusted_date) = Month(date)
             THEN adjusted_date
             ELSE add_business_days(date, -1, cal)
    ELSE IF convention = MODIFIED_PRECEDING
    THEN LET adjusted_date == add_business_days(date, -1, cal)
         IN  IF Month(adjusted_date) = Month(date)
             THEN adjusted_date
             ELSE add_business_days(date, 1, cal)
    ELSE Raised

\* An Optional[int] argument is {} for None and {n} for the integer n.
None == {}
Some(n) == {n}
Value(opt) == CHOOSE n \in opt : TRUE

\* Python's truth value of an Optional[int]: None and 0 are false.
Truthy(opt) == opt # None /\ opt # Some(0)

\* The four stages of advance.  Each takes the date the stage before it
\* left and passes on a ValueError raised there.
advance_years(date, years, convention, eom, cal) ==
    IF Truthy(years)
    THEN adjust(add_months(date, 12 * Value(years), eom), convention, TRUE, cal)
    ELSE date

advance_months(date, months, convention, eom, cal) ==
    IF date # Raised /\ Truthy(months)
    THEN adjust(add_months(date, Value(months), eom), convention, TRUE, cal)
    ELSE date

\* The weeks stage gives adjust no calendar: it uses WEEKEND_CALENDAR.
advance_weeks(date, weeks, convention) ==
    IF date # Raised /\ Truthy(weeks)
    THEN adjust(date + 7 * Value(weeks), convention, TRUE, WEEKEND_CALENDAR)
    ELSE date

advance_days(date, days, cal) ==
    IF date # Raised /\ Truthy(days)
    THEN add_business_days(date, Value(days), cal)
    ELSE date

\* The weeks stage with a calendar handed to adjust, and advance with the
\* caller's calendar handed to the weeks stage too.
advance_weeks_given(date, weeks, convention, cal) ==
    IF date # Raised /\ Truthy(weeks)
    THEN adjust(date + 7 * Value(weeks), convention, TRUE, cal)
    ELSE date

advance_weeks_cal(date, days, weeks, months, years, convention, eom, cal) ==
    IF ~(Truthy(days) \/ Truthy(weeks) \/ Truthy(months) \/ Truthy(years))
    THEN adjust(date, convention, TRUE, cal)
    ELSE advance_days(
             advance_weeks_given(
                 advance_months(
                     advance_years(date, years, convention, eom, cal),
                     months, convention, eom, cal),
                 weeks, convention, cal),
             days, cal)

advance(date, days, weeks, months, years, convention, eom, cal) ==
    IF ~(Truthy(days) \/ Truthy(weeks) \/ Truthy(months) \/ Truthy(years))
    THEN adjust(date, convention, TRUE, cal)
    ELSE advance_days(
             advance_weeks(
                 advance_months(
                     advance_years(date, years, convention, eom, cal),
                     months, convention, eom, cal),
                 weeks, convention),
             days, cal)

\* add_nth_day_of_week that moves nth up by one whatever its sign.
add_nth_day_of_week_up(date, nth, dow, strictly_different) ==
    IF nth = 0
    THEN date
    ELSE IF dow < MONDAY \/ dow > FRIDAY
    THEN date
    ELSE
    LET diff == dow - weekday(date)
        nth1 == IF diff = 0 /\ strictly_different THEN nth + 1 ELSE nth
    IN  IF nth1 > 0
        THEN LET diff1 == IF diff < 0 THEN diff + 7 ELSE diff
                 adjusted_start_date == date + diff1
             IN  adjusted_start_date + (nth1 - 1) * 7
        ELSE LET diff1 == IF diff > 0 THEN diff - 7 ELSE diff
                 adjusted_start_date == date + diff1
             IN  adjusted_start_date + (nth1 + 1) * 7

add_nth_day_of_week(date, nth, dow, strictly_different) ==
    IF nth = 0
    THEN date
    ELSE IF dow < MONDAY \/ dow > FRIDAY
    THEN date
    ELSE
    LET diff == dow - weekday(date)
        nth1 == IF diff = 0 /\ strictly_different
                THEN nth + (IF nth >= 0 THEN 1 ELSE -1)
                ELSE nth
    IN  IF nth1 > 0
        THEN LET diff1 == IF diff < 0 THEN diff + 7 ELSE diff
                 adjusted_start_date == date + diff1
             IN  adjusted_start_date + (nth1 - 1) * 7
        ELSE LET diff1 == IF diff > 0 THEN diff - 7 ELSE diff
                 adjusted_start_date == date + diff1
             IN  adjusted_start_date + (nth1 + 1) * 7

----------------------------------------------------------------------------
(* calendars.py: YearlyCalendar.  _holidays maps a year to what            *)
(* fetch_holidays returned for it; fetch_holidays is abstract, so the value *)
(* it returns is an input of the step that calls it.                        *)

\* is_holiday that calls fetch_holidays on every query.
yearly_is_holiday_refetch(c, target_date, fetched) ==
    LET year == Year(target_date)
        c1   == (year :> fetched) @@ c
    IN  [answer |-> target_date \in c1[year], _holidays |-> c1, fetch |-> TRUE]

\* is_holiday on a YearlyCalendar whose _holidays is c: the answer, the
\* _holidays it leaves and whether fetch_holidays was called.
yearly_is_holiday(c, target_date, fetched) ==
    LET year == Year(target_date)
        miss == year \notin DOMAIN c
        c1   == IF miss THEN c @@ (year :> fetched) ELSE c
    IN  [answer |-> target_date \in c1[year], _holidays |-> c1, fetch |-> miss]

\* is_business_day on a YearlyCalendar: is_holiday is only evaluated when
\* is_weekend is false.
yearly_is_business_day(w, c, target_date, fetched) ==
    IF weekday(target_date) \in w
    THEN [answer |-> FALSE, _holidays |-> c, fetch |-> FALSE, holiday |-> FALSE]
    ELSE LET h == yearly_is_holiday(c, target_date, fetched)
         IN  [answer |-> ~h.answer, _holidays |-> h._holidays,
              fetch |-> h.fetch, holiday |-> TRUE]

----------------------------------------------------------------------------
(* arithmetic.py: the quarter helpers.  MonthOfYear is the enumeration of  *)
(* months.py, January = 1 .. December = 12.                                 *)

JANUARY == 1
FEBRUARY == 2
MARCH == 3
APRIL == 4
MAY == 5
JUNE == 6
JULY == 7
AUGUST == 8
SEPTEMBER == 9
OCTOBER == 10
NOVEMBER == 11
DECEMBER == 12

RECURSIVE are_in_same_quarter(_, _)
are_in_same_quarter(first, second) ==
    IF first > second
    THEN are_in_same_quarter(second, first)
    ELSE \/ first = second
         \/ /\ Year(first) = Year(second)
            /\ Month(second) - Month(first) < 4
            /\ (Month(second) - 1) % 3 > (Month(first) - 1) % 3

quarter_of_year(date) ==
    IF Month(date) \in {JANUARY, FEBRUARY, MARCH}
    THEN 1
    ELSE IF Month(date) \in {APRIL, MAY, JUNE}
    THEN 2
    ELSE IF Month(date) \in {JULY, AUGUST, SEPTEMBER}
    THEN 3
    ELSE 4

\* days_and_months_between returns the pair (days, months).
days_and_months_between(start_date, end_date) ==
    IF start_date = end_date
    THEN <<0, 0>>
    ELSE
    LET start_date1 == Date(Year(start_date), Month(start_date), 1)
        end_date1   == Date(Year(end_date), Month(end_date), 1)
        months0 == (Year(end_date1) - Year(start_date1)) * 12
                   + (Month(end_date1) - Month(start_date1))
        months  == IF ~is_end_of_month(end_date)
                      /\ (is_end_of_month(start_date)
                            \/ Day(start_date) > Day(end_date))
                   THEN months0 - 1
                   ELSE months0
        days    == IF Day(start_date) = Day(end_date)
                      \/ (is_end_of_month(start_date)
                            /\ is_end_of_month(end_date))
                   THEN 0
                   ELSE IF Day(start_date) < Day(end_date)
                   THEN Day(end_date) - Day(start_date)
                   ELSE days_in_month(Year(start_date), Month(start_date))
                        - Day(start_date) + Day(end_date)
    IN  <<days, months>>

\* The loop of easter, while e < 0: e += 30.
RECURSIVE easter_while(_)
easter_while(e) == IF e < 0 THEN easter_while(e + 30) ELSE e

\* easter without the correction of e = 24 and of e = 25 with g > 11.
easter_ymd_uncorrected(year) ==
    LET y   == year
        g   == (y - ((y \div 19) * 19)) + 1
        c   == (y \div 100) + 1
        x   == ((3 * c) \div 4) - 12
        z   == (((8 * c) + 5) \div 25) - 5
        d   == ((5 * y) \div 4) - x - 10
        e1  == (11 * g) + 20 + z - x
        e2  == easter_while(e1 - ((e1 \div 30) * 30))
        e   == e2
        n0  == 44 - e
        n1  == IF n0 < 21 THEN n0 + 30 ELSE n0
        dpn == d + n1
        n   == n1 + 7 - (dpn - ((dpn \div 7) * 7))
    IN  IF n > 31
        THEN [year |-> year, month |-> 4, day |-> n - 31]
        ELSE [year |-> year, month |-> 3, day |-> n]

\* The (year, month, day) easter hands to datetime.date.
easter_ymd(year) ==
    LET y   == year
        g   == (y - ((y \div 19) * 19)) + 1
        c   == (y \div 100) + 1
        x   == ((3 * c) \div 4) - 12
        z   == (((8 * c) + 5) \div 25) - 5
        d   == ((5 * y) \div 4) - x - 10
        e1  == (11 * g) + 20 + z - x
        e2  == easter_while(e1 - ((e1 \div 30) * 30))
        e   == IF (e2 = 25 /\ g > 11) \/ e2 = 24 THEN e2 + 1 ELSE e2
        n0  == 44 - e
        n1  == IF n0 < 21 THEN n0 + 30 ELSE n0
        dpn == d + n1
        n   == n1 + 7 - (dpn - ((dpn \div 7) * 7))
    IN  IF n > 31
        THEN [year |-> year, month |-> 4, day |-> n - 31]
        ELSE [year |-> year, month |-> 3, day |-> n]

easter(year) ==
    LET t == easter_ymd(year)
    IN  Date(t.year, t.month, t.day)

----------------------------------------------------------------------------
(* Bounds and input sets *)

NumDates == 12
MaxCount == 3
NumHolidays == 5
MaxMonths == 14
MaxNth == 3
NumYears == 2
DaysPerYear == 2
MaxLog == 2

\* The years the calendar objects are asked about.
CalYears == 2015..(2015 + NumYears - 1)

\* The dates the business-day functions are called with: the end of
\* January 2015 and the start of February (2015-01-31 is a Saturday).
FirstDate == Date(2015, 1, 25)
Dates == FirstDate..(FirstDate + NumDates - 1)

Counts == (-MaxCount)..MaxCount

WeekendChoices == {{SATURDAY, SUNDAY}, {FRIDAY, SATURDAY}, {SUNDAY}, {}}

\* Holiday lists: every subset of a few days around the month end, and one
\* list that closes every day from 2015-02-02 to 2016-01-01.
HolidayStart == Date(2015, 1, 29)
NearHolidays == HolidayStart..(HolidayStart + NumHolidays - 1)
ClosedYear == Date(2015, 2, 2)..Date(2016, 1, 1)
HolidayChoices == (SUBSET NearHolidays) \cup {ClosedYear}

Calendars ==
    {SimpleCalendar(w, h) : w \in WeekendChoices, h \in HolidayChoices}

\* The dates add_months is called with: the first and the last days of
\* every month of a leap year and of the year after it.
MonthYears == {2012, 2013}
MonthDates ==
    {Date(y, m, d) : y \in MonthYears, m \in 1..12, d \in {1, 28}}
    \cup {Date(y, m, days_in_month(y, m)) : y \in MonthYears, m \in 1..12}
    \cup {Date(y, m, days_in_month(y, m) - 1) : y \in MonthYears, m \in 1..12}

MonthCounts == (-MaxMonths)..MaxMonths

\* The offsets advance is called with; None is an omitted argument.
DayOffsets == {None, Some(0), Some(2), Some(-1)}
WeekOffsets == {None, Some(0), Some(1), Some(-1)}
MonthOffsets == {None, Some(0), Some(1)}
YearOffsets == {None, Some(0), Some(1)}

\* The calendars advance is called with: the holidays fall on days the
\* default weekend calendar takes for business days.
AdvanceCalendars ==
    {SimpleCalendar(w, h) :
        w \in {{SATURDAY, SUNDAY}, {FRIDAY, SATURDAY}},
        h \in {{}, {Date(2015, 2, 2), Date(2015, 2, 9), Date(2016, 2, 1)}}}

AdvanceDates == {d \in Dates : d >= Date(2015, 1, 29) /\ d <= Date(2015, 2, 3)}

NthCounts == (-MaxNth)..MaxNth

\* The dates the quarter helpers are called with: two days of every month
\* of two years.
QuarterYears == {2014, 2015}
QuarterDates == {Date(y, mo, d) : y \in QuarterYears, mo \in 1..12, d \in {1, 15}}

\* The calls run statement by statement: a week of dates, the counts
\* -MaxLoopCount..MaxLoopCount, and calendars whose weekend is empty,
\* Saturday and Sunday, every day but Wednesday, or every day of the week,
\* and whose holidays are none, three days in the middle of the week, or
\* every day after or before the week as far as a loop is followed.
NumLoopDates == 7
MaxLoopCount == 2
MaxWalk == 30
LoopDates == FirstDate..(FirstDate + NumLoopDates - 1)
LoopCounts == (-MaxLoopCount)..MaxLoopCount
LoopWeekendChoices ==
    {{}, {SATURDAY, SUNDAY}, DayOfWeek \ {WEDNESDAY}, DayOfWeek}
ClosedAfter == (FirstDate + NumLoopDates)..(FirstDate + NumLoopDates + MaxWalk)
ClosedBefore == (FirstDate - MaxWalk - 1)..(FirstDate - 1)
LoopHolidayChoices ==
    {{}, (FirstDate + 2)..(FirstDate + 4), ClosedAfter, ClosedBefore}

\* Integers that are no member of BusinessDayConvention, and the
\* conventions adjust is called with.
InvalidConventions == {NONE - 1, MODIFIED_FOLLOWING + 1}
AdjustConventions == BusinessDayConvention \cup InvalidConventions

\* The years and months days_in_year and days_in_month are called with:
\* the range holds the century years 1900, 2000 and 2100.
LengthFirstYear == 1896
LengthLastYear == 2104
LengthYears == LengthFirstYear..LengthLastYear
Months == JANUARY..DECEMBER

\* The years easter is called with.
EasterFirstYear == 1583
EasterLastYear == 4099
EasterYears == EasterFirstYear..EasterLastYear

----------------------------------------------------------------------------
(* The arithmetic functions.  Each behaviour is one call of one function:  *)
(* its arguments are recorded in call, its result in ret.                   *)

NoCall == [fn |-> "none"]

\* The frame when no call is being run statement by statement.
Idle == [pc |-> "idle"]

Init ==
    /\ kind = "SimpleCalendar"
    /\ weekends = WEEKEND_CALENDAR.weekends
    /\ holidays = WEEKEND_CALENDAR.holidays
    /\ cache = <<>>
    /\ fetchLog = [y \in CalYears |-> <<>>]
    /\ asked = {}
    /\ call = NoCall
    /\ frame = Idle
    /\ ret = <<>>
    /\ exc = ""

Returns(c, value) ==
    /\ call' = c
    /\ ret' = <<value>>
    /\ exc' = ""
    /\ UNCHANGED <<kind, weekends, holidays, cache, fetchLog, asked, frame>>

\* A call whose result is a date, or the ValueError adjust raises.
ReturnsOrRaises(c, value) ==
    /\ call' = c
    /\ ret' = IF value = Raised THEN <<>> ELSE <<value>>
    /\ exc' = IF value = Raised THEN "ValueError" ELSE ""
    /\ UNCHANGED <<kind, weekends, holidays, cache, fetchLog, asked, frame>>

AddMonths ==
    /\ call = NoCall
    /\ \E date \in MonthDates, months \in MonthCounts, eom \in BOOLEAN :
          Returns([fn |-> "add_months", date |-> date, months |-> months,
                   eom |-> eom, ymd |-> add_months_ymd(date, months, eom)],
                  add_months(date, months, eom))

NearestBusinessDay ==
    /\ call = NoCall
    /\ \E date \in Dates, prefer_forward \in BOOLEAN, cal \in Calendars :
          Returns([fn |-> "nearest_business_day", date |-> date,
                   prefer_forward |-> prefer_forward, cal |-> cal],
                  nearest_business_day(date, prefer_forward, cal))

AddBusinessDays ==
    /\ call = NoCall
    /\ \E date \in Dates, count \in Counts, cal \in Calendars :
          Returns([fn |-> "add_business_days", date |-> date,
                   count |-> count, cal |-> cal],
                  add_business_days(date, count, cal))

Adjust ==
    /\ call = NoCall
    /\ \E date \in Dates, convention \in AdjustConventions,
          prefer_forward \in BOOLEAN, cal \in Calendars :
          ReturnsOrRaises([fn |-> "adjust", date |-> date,
                           convention |-> convention,
                           prefer_forward |-> prefer_forward, cal |-> cal],
                          adjust(date, convention, prefer_forward, cal))

Advance ==
    /\ call = NoCall
    /\ \E date \in AdvanceDates, days \in DayOffsets, weeks \in WeekOffsets,
          months \in MonthOffsets, years \in YearOffsets,
          convention \in BusinessDayConvention, eom \in BOOLEAN,
          cal \in AdvanceCalendars :
          ReturnsOrRaises([fn |-> "advance", date |-> date, days |-> days,
                           weeks |-> weeks, months |-> months,
                           years |-> years, convention |-> convention,
                           eom |-> eom, cal |-> cal],
                          advance(date, days, weeks, months, years,
                                  convention, eom, cal))

AddNthDayOfWeek ==
    /\ call = NoCall
    /\ \E date \in Dates, nth \in NthCounts, dow \in DayOfWeek,
          strictly_different \in BOOLEAN :
          Returns([fn |-> "add_nth_day_of_week", date |-> date, nth |-> nth,
                   dow |-> dow, strictly_different |-> strictly_different],
                  add_nth_day_of_week(date, nth, dow, strictly_different))

AreInSameQuarter ==
    /\ call = NoCall
    /\ \E first \in QuarterDates, second \in QuarterDates :
          Returns([fn |-> "are_in_same_quarter", first |-> first,
                   second |-> second],
                  are_in_same_quarter(first, second))

DaysAndMonthsBetween ==
    /\ call = NoCall
    /\ \E start_date \in MonthDates, end_date \in MonthDates :
          Returns([fn |-> "days_and_months_between",
                   start_date |-> start_date, end_date |-> end_date],
                  days_and_months_between(start_date, end_date))

Easter ==
    /\ call = NoCall
    /\ \E year \in EasterYears :
          Returns([fn |-> "easter", year |-> year, ymd |-> easter_ymd(year)],
                  easter(year))

DaysInMonth ==
    /\ call = NoCall
    /\ \E year \in LengthYears, month \in Months :
          Returns([fn |-> "days_in_month", year |-> year, month |-> month],
                  days_in_month(year, month))

DaysInYear ==
    /\ call = NoCall
    /\ \E year \in LengthYears :
          Returns([fn |-> "days_in_year", year |-> year], days_in_year(year))

Next ==
    \/ AddMonths
    \/ NearestBusinessDay
    \/ AddBusinessDays
    \/ Adjust
    \/ Advance
    \/ AddNthDayOfWeek
    \/ AreInSameQuarter
    \/ DaysAndMonthsBetween
    \/ Easter
    \/ DaysInMonth
    \/ DaysInYear

Spec == Init /\ [][Next]_vars

----------------------------------------------------------------------------
(* The calendar objects.  A behaviour is a sequence of is_weekend,         *)
(* is_holiday and is_business_day queries against one calendar instance.    *)


\* The first days of each year (2015-01-01 is a Thursday, 2016-01-02 a
\* Saturday).
DatesOfYear(year) == Date(year, 1, 1)..Date(year, 1, DaysPerYear)
CalDates == UNION {DatesOfYear(y) : y \in CalYears}

CalWeekendChoices == {{}, {SATURDAY, SUNDAY}, {FRIDAY, SATURDAY}, DayOfWeek}

\* What fetch_holidays(year) may return: any set of dates of that year.
FetchValues(year) == SUBSET DatesOfYear(year)

\* The values a query about target_date draws from fetch_holidays: nothing
\* is drawn when the year is cached, as fetch_holidays is not called then.
FetchDraw(c, target_date) ==
    IF Year(target_date) \in DOMAIN c
    THEN {{}}
    ELSE FetchValues(Year(target_date))

InitCal ==
    /\ weekends \in CalWeekendChoices
    /\ \/ kind = "SimpleCalendar" /\ holidays \in SUBSET CalDates
       \/ kind = "YearlyCalendar" /\ holidays = {}
    /\ cache = <<>>
    /\ fetchLog = [y \in CalYears |-> <<>>]
    /\ asked = {}
    /\ call = NoCall
    /\ frame = Idle
    /\ ret = <<>>
    /\ exc = ""

\* The calendar object as the arithmetic functions see a SimpleCalendar.
Self == SimpleCalendar(weekends, holidays)

\* The effect of a YearlyCalendar query h on the instance.
YearlyEffect(h, target_date, fetched) ==
    /\ cache' = h._holidays
    /\ fetchLog' = IF h.fetch
                   THEN [fetchLog EXCEPT ![Year(target_date)] =
                                             Append(@, fetched)]
                   ELSE fetchLog
    /\ asked' = IF h.holiday THEN asked \cup {Year(target_date)} ELSE asked

IsWeekend ==
    \E target_date \in CalDates :
        /\ call' = [fn |-> "is_weekend", date |-> target_date]
        /\ ret' = <<is_weekend(Self, target_date)>>
        /\ UNCHANGED <<kind, weekends, holidays, cache, fetchLog, asked, frame,
                     exc>>

IsHoliday ==
    \E target_date \in CalDates :
        /\ call' = [fn |-> "is_holiday", date |-> target_date]
        /\ \/ /\ kind = "SimpleCalendar"
              /\ ret' = <<is_holiday(Self, target_date)>>
              /\ UNCHANGED <<cache, fetchLog, asked>>
           \/ /\ kind = "YearlyCalendar"
              /\ Len(fetchLog[Year(target_date)]) < MaxLog
              /\ \E fetched \in FetchDraw(cache, target_date) :
                    LET h == yearly_is_holiday(cache, target_date, fetched)
                    IN  /\ ret' = <<h.answer>>
                        /\ YearlyEffect(h @@ [holiday |-> TRUE],
                                        target_date, fetched)
        /\ UNCHANGED <<kind, weekends, holidays, frame, exc>>

IsBusinessDay ==
    \E target_date \in CalDates :
        /\ call' = [fn |-> "is_business_day", date |-> target_date]
        /\ \/ /\ kind = "SimpleCalendar"
              /\ ret' = <<is_business_day(Self, target_date)>>
              /\ UNCHANGED <<cache, fetchLog, asked>>
           \/ /\ kind = "YearlyCalendar"
              /\ Len(fetchLog[Year(target_date)]) < MaxLog
              /\ \E fetched \in FetchDraw(cache, target_date) :
                    LET h == yearly_is_business_day(weekends, cache,
                                                    target_date, fetched)
                    IN  /\ ret' = <<h.answer>>
                        /\ YearlyEffect(h, target_date, fetched)
        /\ UNCHANGED <<kind, weekends, holidays, frame, exc>>

NextCal ==
    \/ IsWeekend
    \/ IsHoliday
    \/ IsBusinessDay

SpecCal == InitCal /\ [][NextCal]_vars

----------------------------------------------------------------------------
(* The loops of nearest_business_day and add_business_days, one iteration  *)
(* a step.  A behaviour is one call of nearest_business_day,                *)
(* add_business_days or adjust against the calendar of weekends and         *)
(* holidays; frame holds the locals of the function that is running and the *)
(* statement it is at:                                                       *)
(*   "nearest_while"  the while True of nearest_business_day,               *)
(*   "count_while"    the while count != 0 of add_business_days,            *)
(*   "skip_while"     its while not cal.is_business_day(date),              *)
(*   "return"         the function returns frame.value to its caller,       *)
(*   "done"           the call has returned or raised.                      *)
(* frame.stage counts the functions adjust has called.  A loop is followed  *)
(* for as long as its dates stay within MaxWalk days of the date of the     *)
(* call.                                                                     *)

InitLoop ==
    /\ kind = "SimpleCalendar"
    /\ weekends \in LoopWeekendChoices
    /\ holidays \in LoopHolidayChoices
    /\ cache = <<>>
    /\ fetchLog = [y \in CalYears |-> <<>>]
    /\ asked = {}
    /\ call = NoCall
    /\ frame = Idle
    /\ ret = <<>>
    /\ exc = ""

CanWalk(date) == date - call.date \in (-MaxWalk)..MaxWalk

\* The start of nearest_business_day, up to its loop.
EnterNearest(date, prefer_forward, stage) ==
    IF is_business_day(Self, date)
    THEN [pc |-> "return", value |-> date, stage |-> stage]
    ELSE [pc |-> "nearest_while", forward_date |-> date + 1,
          backward_date |-> date - 1, prefer_forward |-> prefer_forward,
          stage |-> stage]

\* add_business_days that steps forward whatever the sign of count.
EnterAddBusinessDaysForward(date, count, stage) ==
    [pc |-> "count_while", date |-> date, count |-> count,
     sign |-> 1, stage |-> stage]

\* The start of add_business_days, up to its loop.
EnterAddBusinessDays(date, count, stage) ==
    [pc |-> "count_while", date |-> date, count |-> count,
     sign |-> IF count > 0 THEN 1 ELSE -1, stage |-> stage]

CallNearestBusinessDay ==
    /\ call = NoCall
    /\ \E date \in LoopDates, prefer_forward \in BOOLEAN :
          /\ call' = [fn |-> "nearest_business_day", date |-> date,
                      prefer_forward |-> prefer_forward]
          /\ frame' = EnterNearest(date, prefer_forward, 1)
    /\ UNCHANGED <<kind, weekends, holidays, cache, fetchLog, asked, ret, exc>>

CallAddBusinessDays ==
    /\ call = NoCall
    /\ \E date \in LoopDates, count \in LoopCounts :
          /\ call' = [fn |-> "add_business_days", date |-> date,
                      count |-> count]
          /\ frame' = EnterAddBusinessDays(date, count, 1)
    /\ UNCHANGED <<kind, weekends, holidays, cache, fetchLog, asked, ret, exc>>

\* adjust up to its return, its raise or the first function it calls.
CallAdjust ==
    /\ call = NoCall
    /\ \E date \in LoopDates, convention \in AdjustConventions,
          prefer_forward \in BOOLEAN :
          /\ call' = [fn |-> "adjust", date |-> date,
                      convention |-> convention,
                      prefer_forward |-> prefer_forward]
          /\ IF convention = NONE \/ is_business_day(Self, date)
             THEN /\ frame' = [pc |-> "done"]
                  /\ ret' = <<date>>
                  /\ exc' = ""
             ELSE IF convention = NEAREST
             THEN /\ frame' = EnterNearest(date, prefer_forward, 1)
                  /\ UNCHANGED <<ret, exc>>
             ELSE IF convention \in {FOLLOWING, MODIFIED_FOLLOWING}
             THEN /\ frame' = EnterAddBusinessDays(date, 1, 1)
                  /\ UNCHANGED <<ret, exc>>
             ELSE IF convention \in {PRECEDING, MODIFIED_PRECEDING}
             THEN /\ frame' = EnterAddBusinessDays(date, -1, 1)
                  /\ UNCHANGED <<ret, exc>>
             ELSE /\ frame' = [pc |-> "done"]
                  /\ ret' = <<>>
                  /\ exc' = "ValueError"
    /\ UNCHANGED <<kind, weekends, holidays, cache, fetchLog, asked>>

\* One iteration of the while True of nearest_business_day.
NearestStep ==
    /\ frame.pc = "nearest_while"
    /\ LET is_forward_ok  == is_business_day(Self, frame.forward_date)
           is_backward_ok == is_business_day(Self, frame.backward_date)
       IN  IF is_forward_ok /\ (frame.prefer_forward \/ ~is_backward_ok)
           THEN frame' = [pc |-> "return", value |-> frame.forward_date,
                          stage |-> frame.stage]
           ELSE IF is_backward_ok
           THEN frame' = [pc |-> "return", value |-> frame.backward_date,
                          stage |-> frame.stage]
           ELSE /\ CanWalk(frame.forward_date + 1)
                /\ frame' = [frame EXCEPT !.forward_date = @ + 1,
                                          !.backward_date = @ - 1]
    /\ UNCHANGED <<kind, weekends, holidays, cache, fetchLog, asked, call,
                   ret, exc>>

\* The test of while count != 0 and, when it holds, date += signed_day and
\* count -= sign.
CountStep ==
    /\ frame.pc = "count_while"
    /\ IF frame.count # 0
       THEN /\ CanWalk(frame.date + frame.sign)
            /\ frame' = [frame EXCEPT !.pc = "skip_while",
                                      !.date = @ + frame.sign,
                                      !.count = @ - frame.sign]
       ELSE frame' = [pc |-> "return", value |-> frame.date,
                      stage |-> frame.stage]
    /\ UNCHANGED <<kind, weekends, holidays, cache, fetchLog, asked, call,
                   ret, exc>>

\* The test of while not cal.is_business_day(date) and, when it holds,
\* date += signed_day.
SkipStep ==
    /\ frame.pc = "skip_while"
    /\ IF ~is_business_day(Self, frame.date)
       THEN /\ CanWalk(frame.date + frame.sign)
            /\ frame' = [frame EXCEPT !.date = @ + frame.sign]
       ELSE frame' = [frame EXCEPT !.pc = "count_while"]
    /\ UNCHANGED <<kind, weekends, holidays, cache, fetchLog, asked, call,
                   ret, exc>>

\* The function returns.  Called by adjust under a MODIFIED convention, its
\* value in another month makes adjust call add_business_days the other
\* way; else its value is the result of the call.
Resume ==
    /\ frame.pc = "return"
    /\ IF /\ call.fn = "adjust"
          /\ call.convention \in {MODIFIED_FOLLOWING, MODIFIED_PRECEDING}
          /\ frame.stage = 1
          /\ Month(frame.value) # Month(call.date)
       THEN /\ frame' = EnterAddBusinessDays(
                            call.date,
                            IF call.convention = MODIFIED_FOLLOWING
                            THEN -1 ELSE 1,
                            2)
            /\ UNCHANGED <<ret, exc>>
       ELSE /\ frame' = [pc |-> "done"]
            /\ ret' = <<frame.value>>
            /\ exc' = ""
    /\ UNCHANGED <<kind, weekends, holidays, cache, fetchLog, asked, call>>

StepLoop ==
    \/ NearestStep
    \/ CountStep
    \/ SkipStep
    \/ Resume

NextLoop ==
    \/ CallNearestBusinessDay
    \/ CallAddBusinessDays
    \/ CallAdjust
    \/ StepLoop

\* The interpreter runs the call it has started: a statement that can be
\* executed is executed.
SpecLoop == InitLoop /\ [][NextLoop]_vars /\ WF_vars(StepLoop)

----------------------------------------------------------------------------
(* Properties of the calendar objects *)

IsYearly == kind = "YearlyCalendar"

\* is_holiday(d) as the instance answers it in the current state; a
\* YearlyCalendar answers from the entry of d's year.
HolidayNow(d) ==
    IF IsYearly
    THEN Year(d) \in DOMAIN cache /\ d \in cache[Year(d)]
    ELSE d \in holidays

WeekendNow(d) == weekday(d) \in weekends

\* C1: is_business_day(d) is true exactly when d is neither a weekend day
\* (its day of week, Monday = 0 .. Sunday = 6, is in the weekend set) nor a
\* holiday, for a SimpleCalendar and for a YearlyCalendar; so a business day
\* is never a weekend day or a holiday.
C1_BusinessDayIffNeither ==
    /\ call.fn = "is_weekend" => ret[1] = WeekendNow(call.date)
    /\ call.fn = "is_business_day" =>
          /\ ret[1] = (~WeekendNow(call.date) /\ ~HolidayNow(call.date))
          /\ ret[1] => ~WeekendNow(call.date) /\ ~HolidayNow(call.date)
          /\ ~WeekendNow(call.date) =>
                (IsYearly => Year(call.date) \in DOMAIN cache)

\* A holiday that is no weekend day has been asked about.
C1_Witness ==
    /\ call.fn = "is_business_day"
    /\ ~WeekendNow(call.date)
    /\ HolidayNow(call.date)
    /\ ret = <<FALSE>>

\* fetch_holidays has been called at most once for each year, the cache
\* holds exactly what those calls returned, and an is_holiday answer is
\* membership in what the call for the date's year returned.
C8_State ==
    /\ \A y \in CalYears : Len(fetchLog[y]) <= 1
    /\ DOMAIN cache = {y \in CalYears : fetchLog[y] # <<>>}
    /\ \A y \in DOMAIN cache : cache[y] = fetchLog[y][1]
    /\ call.fn = "is_holiday" =>
          /\ Len(fetchLog[Year(call.date)]) = 1
          /\ ret[1] = (call.date \in fetchLog[Year(call.date)][1])

\* A step calls fetch_holidays only in a holiday query, only for the year
\* of the date asked about, once, and only when is_holiday was never asked
\* about that year before; and it leaves every cache entry as it was.
C8_Step ==
    /\ \A y \in DOMAIN cache : y \in DOMAIN cache' /\ cache'[y] = cache[y]
    /\ \A y \in CalYears :
          fetchLog'[y] # fetchLog[y] =>
              /\ call'.fn \in {"is_holiday", "is_business_day"}
              /\ y = Year(call'.date)
              /\ y \notin asked
              /\ y \in asked'
              /\ Len(fetchLog'[y]) = Len(fetchLog[y]) + 1
              /\ SubSeq(fetchLog'[y], 1, Len(fetchLog[y])) = fetchLog[y]

\* C8: against one YearlyCalendar, fetch_holidays is called at most once per
\* year, only for the year of a queried date and only on the first holiday
\* query for that year; a cached entry is never replaced or removed; and
\* is_holiday(d) is membership of d in what fetch_holidays(d.year) returned.
C8_FetchOncePerYear == [](IsYearly => C8_State) /\ [][IsYearly => C8_Step]_vars

\* Two years have been fetched and the first date of a cached year, a
\* holiday, is asked about after its second date was.
C8_Witness ==
    /\ IsYearly
    /\ Cardinality(DOMAIN cache) >= 2
    /\ call.fn = "is_holiday"
    /\ call.date = Date(2015, 1, 1)
    /\ fetchLog[2015] = <<{Date(2015, 1, 1)}>>
    /\ ret = <<TRUE>>

----------------------------------------------------------------------------
(* Properties of the arithmetic functions *)

\* The business days of cal among the dates lo..hi.
BusinessDaysIn(cal, lo, hi) == {x \in lo..hi : is_business_day(cal, x)}

\* The first business day after date and the last one before it.
FirstAfter(cal, date) ==
    CHOOSE x \in (date + 1)..(date + MaxSkip + 1) :
        /\ is_business_day(cal, x)
        /\ \A y \in (date + 1)..(x - 1) : ~is_business_day(cal, y)

LastBefore(cal, date) ==
    CHOOSE x \in (date - MaxSkip - 1)..(date - 1) :
        /\ is_business_day(cal, x)
        /\ \A y \in (x + 1)..(date - 1) : ~is_business_day(cal, y)

SameCalendarMonth(a, b) == Year(a) = Year(b) /\ Month(a) = Month(b)

\* C2: add_business_days(date, count, cal) is the count-th business day
\* strictly after date for count > 0, the |count|-th business day strictly
\* before date for count < 0, and date itself for count = 0, business day
\* or not.
C2_AddBusinessDays ==
    call.fn = "add_business_days" =>
        LET d == call.date
            n == call.count
            r == ret[1]
        IN  /\ n = 0 => r = d
            /\ n > 0 => /\ r > d
                        /\ is_business_day(call.cal, r)
                        /\ Cardinality(BusinessDaysIn(call.cal, d + 1, r)) = n
            /\ n < 0 => /\ r < d
                        /\ is_business_day(call.cal, r)
                        /\ Cardinality(BusinessDaysIn(call.cal, r, d - 1)) = -n

\* Two business days are counted from a non-business day, with
\* non-business days stepped over on the way.
C2_Witness ==
    /\ call.fn = "add_business_days"
    /\ call.count = 2
    /\ ~is_business_day(call.cal, call.date)
    /\ ret[1] > call.date + 3
    /\ ret[1] < call.date + 7

\* C3: adjust returns a business day unchanged under each of the six
\* conventions and either prefer_forward, and returns every date unchanged
\* under NONE.
C3_AdjustIdempotent ==
    (/\ call.fn = "adjust"
     /\ call.convention \in BusinessDayConvention
     /\ \/ is_business_day(call.cal, call.date)
        \/ call.convention = NONE)
    => (exc = "" /\ ret = <<call.date>>)

\* A business day followed by a business day is adjusted FOLLOWING.
C3_Witness ==
    /\ call.fn = "adjust"
    /\ call.convention = FOLLOWING
    /\ is_business_day(call.cal, call.date)
    /\ is_business_day(call.cal, call.date + 1)
    /\ ret = <<call.date>>

\* C4: for a non-business day, FOLLOWING gives the first business day
\* after it, PRECEDING the last one before it, MODIFIED_FOLLOWING the
\* FOLLOWING result when it lies in the same month of the same year and
\* else the PRECEDING result, and MODIFIED_PRECEDING the symmetric choice.
C4_AdjustConventions ==
    (/\ call.fn = "adjust"
     /\ ~is_business_day(call.cal, call.date))
    => LET d == call.date
           f == FirstAfter(call.cal, d)
           p == LastBefore(call.cal, d)
       IN  /\ call.convention = FOLLOWING => ret = <<f>>
           /\ call.convention = PRECEDING => ret = <<p>>
           /\ call.convention = MODIFIED_FOLLOWING =>
                 ret = <<IF SameCalendarMonth(f, d) THEN f ELSE p>>
           /\ call.convention = MODIFIED_PRECEDING =>
                 ret = <<IF SameCalendarMonth(p, d) THEN p ELSE f>>

\* C5: nearest_business_day returns a business day unchanged; otherwise it
\* returns a business day at the least distance k >= 1 at which date + k or
\* date - k is a business day, and of the two, when both are, date + k if
\* prefer_forward and date - k if not.
C5_Nearest ==
    call.fn = "nearest_business_day" =>
        LET d == call.date
            r == ret[1]
            k == IF r > d THEN r - d ELSE d - r
        IN  IF is_business_day(call.cal, d)
            THEN r = d
            ELSE /\ k >= 1
                 /\ is_business_day(call.cal, r)
                 /\ BusinessDaysIn(call.cal, d - (k - 1), d + (k - 1)) = {}
                 /\ (is_business_day(call.cal, d + k)
                        /\ is_business_day(call.cal, d - k))
                      => r = (IF call.prefer_forward THEN d + k ELSE d - k)

\* Both neighbours at distance 2 are business days, none is nearer, and the
\* earlier one is preferred.
C5_Witness ==
    /\ call.fn = "nearest_business_day"
    /\ ~call.prefer_forward
    /\ ~is_business_day(call.cal, call.date)
    /\ is_business_day(call.cal, call.date + 2)
    /\ ret = <<call.date - 2>>

\* C6: add_months moves (year, month) by exactly months calendar months,
\* with the month in 1..12; the day is the last day of the target month
\* when eom is set and date is the last day of its month, and else the
\* lesser of date's day and the target month's length; so the result is a
\* valid date of the target month.
C6_AddMonths ==
    call.fn = "add_months" =>
        LET d == call.date
            t == call.ymd
            last == days_in_month(t.year, t.month)
        IN  /\ t.month \in 1..12
            /\ t.year * 12 + (t.month - 1)
                 = Year(d) * 12 + (Month(d) - 1) + call.months
            /\ t.day = IF call.eom /\ is_end_of_month(d)
                       THEN last
                       ELSE Min(Day(d), last)
            /\ t.day \in 1..last
            /\ ret = <<Date(t.year, t.month, t.day)>>
            /\ YMD(ret[1]) = t

\* The last day of February is moved back over a year boundary and
\* anchored to the end of a longer month.
C6_Witness ==
    /\ call.fn = "add_months"
    /\ call.eom
    /\ call.months = -3
    /\ call.date = Date(2013, 2, 28)
    /\ ret = <<Date(2012, 11, 30)>>

\* The stages of advance in their fixed order, and those that run: the
\* ones whose offset is supplied and not zero.
Stages(c) ==
    << [unit |-> "years", offset |-> c.years],
       [unit |-> "months", offset |-> c.months],
       [unit |-> "weeks", offset |-> c.weeks],
       [unit |-> "days", offset |-> c.days] >>

StageRuns(s) == s.offset # None /\ s.offset # Some(0)

DefaultCalendar == [weekends |-> {SATURDAY, SUNDAY}, holidays |-> {}]

ApplyStage(s, d, c) ==
    LET n == Value(s.offset)
    IN  CASE s.unit = "years" ->
                adjust(add_months(d, 12 * n, c.eom), c.convention, TRUE, c.cal)
          [] s.unit = "months" ->
                adjust(add_months(d, n, c.eom), c.convention, TRUE, c.cal)
          [] s.unit = "weeks" ->
                adjust(d + 7 * n, c.convention, TRUE, DefaultCalendar)
          [] s.unit = "days" ->
                add_business_days(d, n, c.cal)

RECURSIVE Compose(_, _, _)
Compose(stages, d, c) ==
    IF stages = <<>>
    THEN d
    ELSE Compose(Tail(stages), ApplyStage(Head(stages), d, c), c)

\* C7: advance is the composition, in the order years, months, weeks, days,
\* of the stages whose offset is supplied and not zero, each taking the
\* date the one before it gave: years and months through add_months and
\* adjust against cal, weeks through adjust against the default
\* Saturday/Sunday calendar, days through add_business_days against cal;
\* with no such stage it is adjust(date, convention, cal).
C7_Advance ==
    call.fn = "advance" =>
        LET run == SelectSeq(Stages(call), StageRuns)
        IN  /\ exc = ""
            /\ ret = << IF run = <<>>
                        THEN adjust(call.date, call.convention, TRUE, call.cal)
                        ELSE Compose(run, call.date, call) >>

\* A week is added alone and the result is a holiday of the caller's
\* calendar.
C7_Witness ==
    /\ call.fn = "advance"
    /\ call.weeks = Some(1)
    /\ ~Truthy(call.days) /\ ~Truthy(call.months) /\ ~Truthy(call.years)
    /\ call.convention = FOLLOWING
    /\ ret = <<call.date + 7>>
    /\ is_holiday(call.cal, ret[1])

\* The dates of lo..hi that fall on the day of week dow.
DowDatesIn(dow, lo, hi) == {x \in lo..hi : weekday(x) = dow}

C10_StrictlyDifferent ==
    (call.fn = "add_nth_day_of_week" /\ call.strictly_different)
    => ret # <<call.date>>

\* C11: are_in_same_quarter(first, second) is true exactly when the two
\* dates lie in the same quarter of the same year, two days of one month
\* included, in either argument order; so it is symmetric.
C11_SameQuarter ==
    call.fn = "are_in_same_quarter" =>
        /\ ret[1] = (/\ Year(call.first) = Year(call.second)
                     /\ quarter_of_year(call.first)
                          = quarter_of_year(call.second))
        /\ ret[1] = are_in_same_quarter(call.second, call.first)

\* C12: for start <= end, days_and_months_between gives (days, months) with
\* months >= 0 and 0 <= days <= 30 such that add_months(start, months)
\* moved on by days calendar days is end; equal dates give (0, 0).
C12_DaysAndMonthsRoundTrip ==
    (call.fn = "days_and_months_between" /\ call.start_date <= call.end_date)
    => LET days   == ret[1][1]
           months == ret[1][2]
       IN  /\ months >= 0
           /\ days \in 0..30
           /\ add_months(call.start_date, months, FALSE) + days = call.end_date
           /\ call.start_date = call.end_date => ret[1] = <<0, 0>>

\* The Gregorian Easter Sunday of a year by the Meeus/Jones/Butcher
\* computus.
ButcherEaster(year) ==
    LET a == year % 19
        b == year \div 100
        c == year % 100
        d == b \div 4
        e == b % 4
        f == (b + 8) \div 25
        g == (b - f + 1) \div 3
        h == (19 * a + b - d - g + 15) % 30
        i == c \div 4
        k == c % 4
        l == (32 + 2 * e + 2 * i - h - k) % 7
        mm == (a + 11 * h + 22 * l) \div 451
        month == (h + l - 7 * mm + 114) \div 31
        day == ((h + l - 7 * mm + 114) % 31) + 1
    IN  [year |-> year, month |-> month, day |-> day]

\* C13: for every year of the range, easter(year) is the Gregorian Easter
\* Sunday the Meeus/Jones/Butcher computus gives: a Sunday from 22 March to
\* 25 April of that year, built from a valid month and day.
C13_Easter ==
    call.fn = "easter" =>
        LET t == call.ymd
        IN  /\ t = ButcherEaster(call.year)
            /\ t.month \in {3, 4}
            /\ t.day \in 1..days_in_month(t.year, t.month)
            /\ ret = <<Date(t.year, t.month, t.day)>>
            /\ YMD(ret[1]) = t
            /\ weekday(ret[1]) = SUNDAY
            /\ ret[1] >= Date(call.year, 3, 22)
            /\ ret[1] <= Date(call.year, 4, 25)

\* A year in which the correction of e = 24 moves Easter from 26 April
\* back to 19 April.
C13_Witness ==
    /\ call.fn = "easter"
    /\ call.year = 1981
    /\ ret = <<Date(1981, 4, 19)>>

\* C14: adjust raises ValueError and returns no date whenever the
\* convention is none of the six members of BusinessDayConvention, for
\* every date and calendar.
C14_InvalidConventionRaises ==
    (call.fn = "adjust" /\ call.convention \notin BusinessDayConvention)
    => (exc = "ValueError" /\ ret = <<>>)

\* The Gregorian leap year rule.
LeapRule(Y) == Y % 4 = 0 /\ (Y % 100 # 0 \/ Y % 400 = 0)

\* The sum of days_in_month(Y, m) over the months from m to December.
RECURSIVE SumOfMonths(_, _)
SumOfMonths(Y, m) ==
    IF m > DECEMBER THEN 0 ELSE days_in_month(Y, m) + SumOfMonths(Y, m + 1)

\* C15: days_in_year(Y) is the sum of days_in_month(Y, m) over the twelve
\* months, 366 exactly in the years of the leap rule and else 365;
\* days_in_month(Y, 2) is 29 exactly in those years and else 28, and every
\* other month has its fixed length of 31 or 30 days in every year.
C15_YearAndMonthLengths ==
    /\ call.fn = "days_in_year" =>
          /\ ret[1] = SumOfMonths(call.year, JANUARY)
          /\ ret[1] = (IF LeapRule(call.year) THEN 366 ELSE 365)
    /\ call.fn = "days_in_month" =>
          ret[1] = (IF call.month = FEBRUARY
                    THEN (IF LeapRule(call.year) THEN 29 ELSE 28)
                    ELSE IF call.month \in {APRIL, JUNE, SEPTEMBER, NOVEMBER}
                    THEN 30
                    ELSE 31)

\* February of a century year that is a leap year.
C15_Witness ==
    /\ call.fn = "days_in_month"
    /\ call.year = 2000
    /\ call.month = FEBRUARY
    /\ ret = <<29>>

----------------------------------------------------------------------------
(* Termination of the business day searches *)

Returned == frame.pc = "done"

\* The business days among the dates after, and before, the date of the
\* call that a loop is followed to.
DaysAfter == BusinessDaysIn(Self, call.date + 1, call.date + MaxWalk)
DaysBefore == BusinessDaysIn(Self, call.date - MaxWalk, call.date - 1)

\* The first of DaysAfter, or the last of DaysBefore, is in the month of
\* the date of the call.
FirstAfterInMonth ==
    \E x \in DaysAfter :
        (\A y \in DaysAfter : x <= y) /\ Month(x) = Month(call.date)
LastBeforeInMonth ==
    \E x \in DaysBefore :
        (\A y \in DaysBefore : y <= x) /\ Month(x) = Month(call.date)

\* The business days a call looks for exist in the direction it searches:
\* nearest_business_day looks both ways, add_business_days for |count|
\* days the way of count, adjust as the convention has it.
SearchedDaysExist ==
    LET nearest == is_business_day(Self, call.date)
                       \/ DaysAfter # {} \/ DaysBefore # {}
        add(count) == IF count > 0 THEN Cardinality(DaysAfter) >= count
                      ELSE Cardinality(DaysBefore) >= -count
    IN  CASE call.fn = "nearest_business_day" -> nearest
          [] call.fn = "add_business_days" -> add(call.count)
          [] call.fn = "adjust" ->
               IF call.convention = NONE \/ is_business_day(Self, call.date)
               THEN TRUE
               ELSE CASE call.convention = NEAREST -> nearest
                      [] call.convention = FOLLOWING -> add(1)
                      [] call.convention = PRECEDING -> add(-1)
                      [] call.convention = MODIFIED_FOLLOWING ->
                           add(1) /\ (FirstAfterInMonth \/ add(-1))
                      [] call.convention = MODIFIED_PRECEDING ->
                           add(-1) /\ (LastBeforeInMonth \/ add(1))
                      [] OTHER -> TRUE
          [] OTHER -> FALSE

\* A calendar with business days at a finite distance on each side of
\* every date: its weekend is not the whole week and its holidays end.
FiniteDistanceCalendar ==
    /\ weekends # DayOfWeek
    /\ holidays \notin {ClosedAfter, ClosedBefore}

\* The call enters a loop: its date is no business day, or it counts.
Searches ==
    \/ call.fn = "nearest_business_day" /\ ~is_business_day(Self, call.date)
    \/ call.fn = "add_business_days" /\ call.count # 0
    \/ /\ call.fn = "adjust"
       /\ call.convention \in BusinessDayConvention \ {NONE}
       /\ ~is_business_day(Self, call.date)

\* C16: nearest_business_day, add_business_days for every count and adjust
\* for every convention eventually return against a calendar that has
\* business days at a finite distance on each side of every date, and, for
\* any calendar, whenever the business days looked for exist in the
\* direction that is searched; against a calendar whose weekend is the
\* whole week a call that searches returns no date.
C16_Termination ==
    /\ (call # NoCall /\ FiniteDistanceCalendar) ~> Returned
    /\ (call # NoCall /\ SearchedDaysExist) ~> Returned
    /\ [](weekends = DayOfWeek /\ Searches => ret = <<>>)

\* add_business_days has counted two Wednesdays past a week of weekend
\* and holidays, three weeks from its date.
C16_Witness ==
    /\ Returned
    /\ call.fn = "add_business_days"
    /\ call.count = MaxLoopCount
    /\ weekends = DayOfWeek \ {WEDNESDAY}
    /\ holidays = (FirstDate + 2)..(FirstDate + 4)
    /\ ret[1] - call.date > 14

====
